---- MODULE Spec2Model ----
(***************************************************************************)
(* A model of obs_controller.controller.OBSController: the websocket       *)
(* session (connect / disconnect / is_connected, the health check and the  *)
(* two guard decorators), the process handle (launch_obs / cleanup), the   *)
(* save_replay confirm-on-disk polling loop, the directory queries and the *)
(* video retention loop (check_and_manage_folder_size / cleanup_videos).   *)
(*                                                                         *)
(* The obswebsocket client, the OBS process and the video directory are    *)
(* the environment: their outcomes are inputs drawn with \E, and they      *)
(* change state through the environment actions at the end of each part.   *)
(***************************************************************************)
EXTENDS Integers, Sequences, FiniteSets, TLC

\* ------------------------------------------------------------------ bounds
\* Files the directory can hold (paths 1..MaxFiles, in directory-scan order).
MaxFiles == 2
\* Time stamps (st_mtime / st_ctime) range over 1..MaxStamp.
MaxStamp == 2
\* Sockets opened by connect() that no handle references any more, at most.
MaxLeaked == 2
\* The clock of one save_replay call stops at MaxTime (in half seconds).
MaxTime == 6
\* The SaveReplayBuffer request answers within MaxCallDur half seconds.
MaxCallDur == 2
\* Throwaway sockets of the health check left open at the same time, at most.
MaxProbes == 1
\* Process handles one controller creates, at most.
MaxSpawns == 2
\* terminate() requests one process handle receives, at most.
MaxTerminations == 2

\* ------------------------------------------------------------- constants
\* time.sleep(1): the poll interval, with the clock counted in half seconds
\* (timeouts and request durations need not be whole seconds).
PollInterval == 2
\* self.timeout, a constructor argument (half seconds); 300 s by default.
Timeouts == {0, 3}
\* st_size of a video file, in units of 10 MB.
Sizes == {5, 10}
\* self.max_folder_size, a constructor argument, in units of 10 MB.
Caps == {7, 12}

Paths == 1..MaxFiles
Stamps == 1..MaxStamp

\* A directory slot with no file in it.
NoFile == [mtime |-> 0, ctime |-> 0, size |-> 0]
\* get_latest_video's None.
None == [path |-> 0, modification_time |-> 0]

VARIABLES
    processRunning,     \* an obs64.exe process exists on the host
    ws,                 \* self.ws: "None", or the state of the handle's socket
    leaked,             \* live sockets opened by connect() that self.ws lost
    process,            \* self.process: "None", or "handle" (a Popen object)
    spawned,            \* Popen objects launch_obs() has created so far
    terminated,         \* terminate() requests made of the handle in
                        \* self.process
    probes,             \* live sockets the health check opened and left open
    lastOp,             \* the public method that returned last ("none": the
                        \* environment acted since)
    lastResult,         \* what it returned or raised
    opCalls,            \* protocol calls the running / last method issued
    opScans,            \* directory scans the running / last method made
    queryResult,        \* what the last get_latest_video() returned
    queryRaised,        \* the process query or the directory scan of the last
                        \* get_latest_video / check_and_manage_folder_size /
                        \* launch_obs call raised
    files,              \* the video directory: path -> metadata or NoFile
    timeout,            \* self.timeout
    now,                \* clock of the save_replay call in progress
    pc,                 \* where save_replay stands
    latest_file_before, \* save_replay's local
    deadline,           \* save_replay's local
    sleepLeft,          \* what is left of the current time.sleep(1)
    hist,               \* observations of the save_replay call in progress
    max_folder_size,    \* self.max_folder_size
    cpc,                \* where cleanup_videos stands
    videos,             \* cleanup_videos' local: the sorted candidates
    current_size,       \* cleanup_videos' local: the running total
    rhist               \* observations of the retention run in progress

sessionVars == <<processRunning, ws, leaked>>
hostVars == <<process, spawned, terminated, probes>>
queryVars == <<queryResult, queryRaised>>
opVars == <<lastOp, lastResult, opCalls, opScans, queryResult, queryRaised>>
saveVars == <<now, pc, latest_file_before, deadline, sleepLeft, hist>>
cleanVars == <<max_folder_size, cpc, videos, current_size, rhist>>
vars == <<processRunning, ws, leaked, process, spawned, terminated, probes,
          lastOp, lastResult, opCalls, opScans, queryResult, queryRaised,
          files, timeout, now, pc, latest_file_before, deadline, sleepLeft,
          hist, max_folder_size, cpc, videos, current_size, rhist>>

\* ------------------------------------------------------------ the session
\* States of the socket behind an obsws handle: "absent" (obsws.ws is None),
\* "closed" (a socket whose connected flag is False), "open" (connected).
Socks == {"absent", "closed", "open"}

\* What obsws.connect() can do: succeed, or raise with the socket never
\* created, created and not connected, or connected and then refused at the
\* identification step (the socket is left open by the client library).
ConnectOutcomes == {"ok", "fail_absent", "fail_closed", "fail_open"}

\* What obsws.disconnect() can do: close, or raise with the socket closed or
\* still open.
DisconnectOutcomes == {"ok", "fail_closed", "fail_open"}

\* The WMI query of is_process_running: it answers, or raises.
QueryOutcomes == {"ok", "error"}

\* is_connected answering for the handle alone.
IsConnectedOf_HandlePresent(h) == h # "None"

\* is_connected (property): ws is not None and ws.ws.connected; an absent
\* ws.ws raises AttributeError, which is caught and gives False.
IsConnectedOf(h) == h # "None" /\ h # "absent" /\ h = "open"

is_connected == IsConnectedOf(ws)

\* is_process_running with the except clause answering True.
is_process_running_ErrorIsTrue(q) == q = "error" \/ processRunning

\* is_process_running (property): len(colItems) > 0, and None (falsy) when
\* the query raises.
is_process_running(q) == q = "ok" /\ processRunning

Idle == pc = "idle" /\ cpc = "idle"

Present(fs) == {p \in Paths : fs[p] # NoFile}

EmptyDir == [p \in Paths |-> NoFile]

\* What a save_replay call in progress has seen so far.
HistInit(fs) ==
    [request |-> "pending",   \* the SaveReplayBuffer request: pending/ok/failed
     lateCall |-> FALSE,      \* the request answered after the deadline
     instant |-> FALSE,       \* the request answered at the time of the call
     slept |-> FALSE,         \* a time.sleep(1) has completed
     startEmpty |-> Present(fs) = {},  \* the directory held no video at the call
     otherNewest |-> FALSE,   \* a path other than 'before' has been the newest
     appeared |-> "no",       \* a file was created: "no", "intime" (at or
                              \* before the deadline), "late"
     removed |-> FALSE,       \* a file was removed during the call
     scanError |-> FALSE]     \* a scan of the polling loop raised

\* What a retention run has seen so far.
RHistInit(fs) ==
    [startFiles |-> fs,       \* the directory when the run started
     delFailed |-> FALSE,     \* an os.remove raised
     overDelete |-> FALSE]    \* a file was removed although the files still
                              \* in the directory were within the cap

\* The locals of a call that has returned are dead: the next step of anyone
\* forgets them.
ForgetSave ==
    /\ now' = 0
    /\ pc' = "idle"
    /\ latest_file_before' = None
    /\ deadline' = 0
    /\ sleepLeft' = 0
    /\ hist' = HistInit(EmptyDir)

ForgetClean ==
    /\ cpc' = "idle"
    /\ videos' = <<>>
    /\ current_size' = 0
    /\ rhist' = RHistInit(EmptyDir)
    /\ UNCHANGED max_folder_size

Forget == ForgetSave /\ ForgetClean

Returns(op, res, calls, scans) ==
    /\ lastOp' = op
    /\ lastResult' = res
    /\ opCalls' = calls
    /\ opScans' = scans
    /\ queryResult' = None
    /\ queryRaised' = FALSE

\* require_process_running.wrapped with the check made after connect() has
\* built its handle.
RejectProcessNotRunning_AfterHandle(op) ==
    /\ Returns(op, "OBSProcessError", 0, 0)
    /\ ws' = "absent"
    /\ Forget
    /\ UNCHANGED <<hostVars, processRunning, leaked, files, timeout>>

\* require_process_running.wrapped, the raising branch.
RejectProcessNotRunning(op) ==
    /\ Returns(op, "OBSProcessError", 0, 0)
    /\ Forget
    /\ UNCHANGED <<sessionVars, hostVars, files, timeout>>

\* require_connection.wrapped, the raising branch.
RejectNotConnected(op) ==
    /\ Returns(op, "OBSWebSocketError", 0, 0)
    /\ Forget
    /\ UNCHANGED <<sessionVars, hostVars, files, timeout>>

\* The handle connect() leaves in self.ws: a new obsws object replaces the
\* old one before obsws.connect() runs.
HandleAfterConnect(o) ==
    CASE o = "ok" -> "open"
      [] o = "fail_absent" -> "absent"
      [] o = "fail_closed" -> "closed"
      [] o = "fail_open" -> "open"

\* connect(), under @require_process_running.
Connect(q, o) ==
    /\ Idle
    /\ IF ~is_process_running(q)
       THEN RejectProcessNotRunning("connect")
       ELSE /\ ws = "open" => leaked < MaxLeaked
            /\ ws' = HandleAfterConnect(o)
            \* the old handle is dropped without disconnect(): its socket
            \* stays open
            /\ leaked' = IF ws = "open" THEN leaked + 1 ELSE leaked
            /\ Returns("connect", IF o = "ok" THEN "True" ELSE "False", 1, 0)
            /\ Forget
            /\ UNCHANGED <<hostVars, processRunning, files, timeout>>

\* disconnect() clearing the handle on the success path only.
HandleAfterDisconnect_NoFinally(h, o) == IF o = "ok" THEN "None" ELSE h

\* The handle disconnect() leaves in self.ws (the finally clause).
HandleAfterDisconnect(h, o) == "None"

\* disconnect().
Disconnect(o) ==
    /\ Idle
    /\ IF ws = "None"
       THEN /\ Returns("disconnect", "False", 0, 0)
            /\ Forget
            /\ UNCHANGED <<sessionVars, hostVars, files, timeout>>
       ELSE /\ o = "fail_open" => (ws = "open" /\ leaked < MaxLeaked)
            /\ ws' = HandleAfterDisconnect(ws, o)
            /\ leaked' = IF o = "fail_open" THEN leaked + 1 ELSE leaked
            /\ Returns("disconnect",
                       IF o = "ok" THEN "True" ELSE "OBSConnectionError", 1, 0)
            /\ Forget
            /\ UNCHANGED <<hostVars, processRunning, files, timeout>>

\* The health check run on self.ws instead of a local handle.
HandleAfterHealthCheck_Shared(h, c, d) ==
    IF c # "ok" THEN HandleAfterConnect(c)
    ELSE IF d = "fail_open" THEN "open" ELSE "closed"

\* self.ws after websocket_connection_health_check(): the method works on a
\* local obsws object and never assigns self.ws.
HandleAfterHealthCheck(h, c, d) == h

\* The throwaway socket is left open when its connect() raises after the
\* socket opened, or when its disconnect() raises without closing it.
ProbeLeftOpen(c, d) == c = "fail_open" \/ (c = "ok" /\ d = "fail_open")

\* websocket_connection_health_check(): connect and disconnect of a local
\* obsws; True when neither raises, False otherwise.
HealthCheck(c, d) ==
    /\ Idle
    /\ ProbeLeftOpen(c, d) => probes < MaxProbes
    /\ ws' = HandleAfterHealthCheck(ws, c, d)
    /\ probes' = IF ProbeLeftOpen(c, d) THEN probes + 1 ELSE probes
    /\ Returns("health_check",
               IF c = "ok" /\ d = "ok" THEN "True" ELSE "False", 1, 0)
    /\ Forget
    /\ UNCHANGED <<processRunning, leaked, process, spawned, terminated,
                   files, timeout>>

\* is_connected read by the user.
IsConnectedRead ==
    /\ Idle
    /\ Returns("is_connected", IF is_connected THEN "True" ELSE "False", 0, 0)
    /\ Forget
    /\ UNCHANGED <<sessionVars, hostVars, files, timeout>>

\* ------------------------------------------------- the OBS process handle
\* launch_obs() going to Popen whatever the process query says.
ShouldSpawn_Always(q) == TRUE

\* launch_obs(): the early return is taken when is_process_running is
\* truthy; a query that raised gives None and lets the launch go on.
ShouldSpawn(q) == ~is_process_running(q)

\* launch_obs(): subprocess.Popen when no OBS process is reported; a Popen
\* that raises is logged. The method returns None on every path.
LaunchObs(q, spawnOk) ==
    /\ Idle
    /\ IF ShouldSpawn(q) /\ spawnOk
       THEN /\ spawned < MaxSpawns
            /\ process' = "handle"
            /\ spawned' = spawned + 1
            /\ terminated' = 0
            /\ processRunning' = TRUE
       ELSE UNCHANGED <<process, spawned, terminated, processRunning>>
    /\ lastOp' = "launch_obs"
    /\ lastResult' = "None"
    /\ opCalls' = 0
    /\ opScans' = 0
    /\ queryResult' = None
    /\ queryRaised' = (q = "error")
    /\ Forget
    /\ UNCHANGED <<ws, leaked, probes, files, timeout>>

\* cleanup(): the test self.ws.ws.connected raises AttributeError on a
\* handle without a socket, and self.ws.disconnect() can raise; either way
\* the except clause is entered before the process is looked at.
CleanupRaises(h, o) == h = "absent" \/ (h = "open" /\ o # "ok")

\* The handle after cleanup(): obsws.disconnect() is called on a connected
\* handle, and self.ws is not assigned.
HandleAfterCleanup(h, o) ==
    IF h = "open" /\ o # "fail_open" THEN "closed" ELSE h

\* cleanup(), called by the user or by the exit hook registered in __init__:
\* disconnect when connected, then terminate() on self.process when there is
\* one, all in one try; self.process is not cleared. Another OBS process
\* (others) may go on running.
Cleanup(o, others) ==
    /\ Idle
    /\ ws' = HandleAfterCleanup(ws, o)
    /\ IF process # "None" /\ ~CleanupRaises(ws, o)
       THEN /\ terminated < MaxTerminations
            /\ terminated' = terminated + 1
            /\ processRunning' = (processRunning /\ others)
       ELSE UNCHANGED <<terminated, processRunning>>
    /\ Returns("cleanup", "None", IF ws = "open" THEN 1 ELSE 0, 0)
    /\ Forget
    /\ UNCHANGED <<leaked, process, spawned, probes, files, timeout>>

\* The request methods without their except clause.
ReplayBufferResult_Raise(ok) == IF ok THEN "True" ELSE "OBSWebSocketError"

\* What start_replay_buffer() / stop_replay_buffer() return: True when
\* self.ws.call returns, False from the except clause when it raises.
ReplayBufferResult(ok) == IF ok THEN "True" ELSE "False"

\* start_replay_buffer() and stop_replay_buffer(), under @require_connection.
ReplayBufferRequest(op, ok) ==
    /\ Idle
    /\ IF ~is_connected
       THEN RejectNotConnected(op)
       ELSE /\ Returns(op, ReplayBufferResult(ok), 1, 0)
            /\ Forget
    /\ UNCHANGED <<sessionVars, hostVars, files, timeout>>

StartReplayBuffer(ok) == ReplayBufferRequest("start_replay_buffer", ok)

StopReplayBuffer(ok) == ReplayBufferRequest("stop_replay_buffer", ok)

\* ---------------------------------------------- environment of the session
\* While a method is running its bookkeeping stands; otherwise the step wipes
\* the record of the last return.
EnvStep ==
    IF Idle THEN Returns("none", "none", 0, 0) /\ Forget
    ELSE UNCHANGED <<opVars, saveVars, cleanVars>>

\* OBS is started (by launch_obs or by the user).
ProcessStart ==
    /\ ~processRunning
    /\ processRunning' = TRUE
    /\ EnvStep
    /\ UNCHANGED <<hostVars, ws, leaked, files, timeout>>

\* OBS exits. The client's connected flag follows only when the socket
\* is seen to drop (ConnectionDrop).
ProcessExit ==
    /\ processRunning
    /\ processRunning' = FALSE
    /\ EnvStep
    /\ UNCHANGED <<hostVars, ws, leaked, files, timeout>>

\* The socket behind self.ws drops.
ConnectionDrop ==
    /\ ws = "open"
    /\ ws' = "closed"
    /\ EnvStep
    /\ UNCHANGED <<hostVars, processRunning, leaked, files, timeout>>

\* A socket no handle references drops.
LeakedDrop ==
    /\ leaked > 0
    /\ leaked' = leaked - 1
    /\ EnvStep
    /\ UNCHANGED <<hostVars, processRunning, ws, files, timeout>>

\* A socket the health check left open drops.
ProbeDrop ==
    /\ probes > 0
    /\ probes' = probes - 1
    /\ EnvStep
    /\ UNCHANGED <<sessionVars, process, spawned, terminated, files, timeout>>

\* ------------------------------------------------------ the video directory
\* glob('*.mp4'): the directory scan yields the paths in ascending order.
ScanBefore(p, q) == p < q

\* The maximum keyed on the creation time.
MaxByMtime_Ctime(fs) ==
    IF Present(fs) = {} THEN 0
    ELSE CHOOSE p \in Present(fs) :
            \A q \in Present(fs) \ {p} :
                \/ fs[q].ctime < fs[p].ctime
                \/ fs[q].ctime = fs[p].ctime /\ ScanBefore(p, q)

\* max(glob, key=st_mtime, default=None): the first of the scan among the
\* files of greatest modification time.
MaxByMtime(fs) ==
    IF Present(fs) = {} THEN 0
    ELSE CHOOSE p \in Present(fs) :
            \A q \in Present(fs) \ {p} :
                \/ fs[q].mtime < fs[p].mtime
                \/ fs[q].mtime = fs[p].mtime /\ ScanBefore(p, q)

\* get_latest_video(): the newest file's path and formatted times, or None
\* when there is no file or when the scan or a stat raises (scanOk = FALSE).
get_latest_video(fs, scanOk) ==
    IF ~scanOk \/ MaxByMtime(fs) = 0 THEN None
    ELSE [path |-> MaxByMtime(fs),
          modification_time |-> fs[MaxByMtime(fs)].mtime]

\* sum(f.stat().st_size for f in glob('*.mp4')).
RECURSIVE SumSizes(_, _)
SumSizes(fs, S) ==
    IF S = {} THEN 0
    ELSE LET p == CHOOSE x \in S : TRUE
         IN fs[p].size + SumSizes(fs, S \ {p})

TotalSize(fs) == SumSizes(fs, Present(fs))

\* get_latest_video() called by the user: every exception of the scan is
\* caught, logged, and answered with None.
GetLatestVideo(scanOk) ==
    /\ Idle
    /\ queryResult' = get_latest_video(files, scanOk)
    /\ queryRaised' = ~scanOk
    /\ lastOp' = "get_latest_video"
    /\ lastResult' = IF queryResult' = None THEN "None" ELSE "dict"
    /\ opCalls' = 0
    /\ opScans' = 1
    /\ Forget
    /\ UNCHANGED <<sessionVars, hostVars, files, timeout>>

\* ------------------------------------------------------------ save_replay
\* The while condition one half second too generous.
WithinDeadline_Lenient(t, d) == t <= d + 1

\* The while condition written time.time() < deadline.
WithinDeadline_Strict(t, d) == t < d

\* The while condition: time.time() <= deadline.
WithinDeadline(t, d) == t <= d

\* Success on any difference between the two snapshots.
SaveSucceeded_AnyChange(before, after) == after # None /\ after # before

\* The two success branches of the polling loop.
SaveSucceeded(before, after) ==
    \/ before = None /\ after # None
    \/ before # None /\ after # None /\ before.path # after.path

\* save_replay(), under @require_connection: the snapshot, the deadline and
\* the request being sent. The clock is read relative to the call: now = 0
\* is the time.time() of line 419.
SaveReplayBegin(scanOk) ==
    /\ Idle
    /\ IF ~is_connected
       THEN RejectNotConnected("save_replay")
       ELSE /\ latest_file_before' = get_latest_video(files, scanOk)
            /\ now' = 0
            /\ deadline' = now' + timeout
            /\ pc' = "calling"
            /\ sleepLeft' = 0
            /\ hist' = HistInit(files)
            /\ Returns("save_replay", "running", 1, 1)
            /\ ForgetClean
            /\ UNCHANGED <<sessionVars, hostVars, files, timeout>>

SaveReturn(res) ==
    /\ pc' = "idle"
    /\ lastOp' = "save_replay"
    /\ lastResult' = res

\* self.ws.call(requests.SaveReplayBuffer()) answers, or raises into the
\* except clause (return False).
SaveReplayCallReturns(ok) ==
    /\ pc = "calling"
    /\ hist' = [hist EXCEPT !.request = IF ok THEN "ok" ELSE "failed",
                            !.lateCall = now > deadline,
                            !.instant = (now = 0)]
    /\ IF ok
       THEN /\ pc' = "check"
            /\ UNCHANGED <<lastOp, lastResult>>
       ELSE SaveReturn("False")
    /\ UNCHANGED <<sessionVars, hostVars, opCalls, opScans, queryVars, files,
                   timeout, now,
                   latest_file_before, deadline, sleepLeft, cleanVars>>

\* The loop body sending the request again.
CallsAfterPoll_Reissue(c) == c + 1

\* Protocol calls issued once a turn of the while loop is over: the loop
\* body makes none (the request is sent once, before the loop).
CallsAfterPoll(c) == c

\* One turn of the while loop: the deadline test, the scan, the two success
\* branches, or the start of time.sleep(1).
SaveReplayPoll(scanOk) ==
    /\ pc = "check"
    /\ IF WithinDeadline(now, deadline)
       THEN /\ opScans' = opScans + 1
            /\ opCalls' = CallsAfterPoll(opCalls)
            /\ IF SaveSucceeded(latest_file_before,
                                get_latest_video(files, scanOk))
               THEN /\ SaveReturn("True")
                    /\ sleepLeft' = 0
               ELSE /\ pc' = "sleeping"
                    /\ sleepLeft' = PollInterval
                    /\ UNCHANGED <<lastOp, lastResult>>
       ELSE /\ SaveReturn("False")
            /\ UNCHANGED <<opCalls, opScans, sleepLeft>>
    /\ hist' = [hist EXCEPT !.scanError =
                    @ \/ (WithinDeadline(now, deadline) /\ ~scanOk)]
    /\ UNCHANGED <<sessionVars, hostVars, queryVars, files, timeout, now,
                   latest_file_before, deadline, cleanVars>>

\* Time passes while save_replay waits for the request or sleeps; the scans
\* and the tests take no time.
Tick ==
    /\ pc \in {"calling", "sleeping"}
    /\ now < MaxTime
    /\ pc = "calling" => now < MaxCallDur
    /\ now' = now + 1
    /\ IF pc = "sleeping"
       THEN /\ sleepLeft' = sleepLeft - 1
            /\ pc' = IF sleepLeft = 1 THEN "check" ELSE "sleeping"
            /\ hist' = IF sleepLeft = 1
                       THEN [hist EXCEPT !.slept = TRUE] ELSE hist
       ELSE UNCHANGED <<sleepLeft, pc, hist>>
    /\ UNCHANGED <<sessionVars, hostVars, opVars, files, timeout,
                   latest_file_before,
                   deadline, cleanVars>>

\* -------------------------------------------- environment of the directory
\* What the running save_replay call has lived through once the directory
\* is fs2.
HistAfter(fs2, created, deleted) ==
    [hist EXCEPT
        !.otherNewest = @ \/ (MaxByMtime(fs2) # 0 /\
                              MaxByMtime(fs2) # latest_file_before.path),
        !.appeared = IF created /\ @ = "no"
                     THEN (IF now <= deadline THEN "intime" ELSE "late")
                     ELSE @,
        !.removed = @ \/ deleted]

\* The directory changes under a save_replay call in progress, or between
\* calls. No one else writes while a retention run is in progress.
DirEnvStep(fs2, created, deleted) ==
    IF pc = "idle"
    THEN Returns("none", "none", 0, 0) /\ Forget
    ELSE /\ hist' = HistAfter(fs2, created, deleted)
         /\ UNCHANGED <<opVars, now, pc, latest_file_before, deadline,
                        sleepLeft, cleanVars>>

\* OBS (or anyone) writes a new video file.
AddFile(p, m, c, s) ==
    /\ cpc = "idle"
    /\ files[p] = NoFile
    /\ c <= m
    /\ files' = [files EXCEPT ![p] = [mtime |-> m, ctime |-> c, size |-> s]]
    /\ DirEnvStep(files', TRUE, FALSE)
    /\ UNCHANGED <<sessionVars, hostVars, timeout>>

\* A file is written to again: only its modification time moves.
TouchFile(p, m) ==
    /\ cpc = "idle"
    /\ files[p] # NoFile
    /\ m > files[p].mtime
    /\ files' = [files EXCEPT ![p].mtime = m]
    /\ DirEnvStep(files', FALSE, FALSE)
    /\ UNCHANGED <<sessionVars, hostVars, timeout>>

\* A file is removed by someone else.
RemoveFile(p) ==
    /\ cpc = "idle"
    /\ files[p] # NoFile
    /\ files' = [files EXCEPT ![p] = NoFile]
    /\ DirEnvStep(files', FALSE, TRUE)
    /\ UNCHANGED <<sessionVars, hostVars, timeout>>

\* -------------------------------------------------------------- retention
\* The sort keyed on the modification time.
SortKey_Mtime(f) == f.mtime

\* key=lambda f: f.stat().st_ctime.
SortKey(f) == f.ctime

\* The next element sorted() emits: least key, and among equal keys the
\* first of the scan (sorted is stable).
FirstByKey(fs, S) ==
    CHOOSE p \in S :
        \A q \in S \ {p} :
            \/ SortKey(fs[p]) < SortKey(fs[q])
            \/ SortKey(fs[p]) = SortKey(fs[q]) /\ ScanBefore(p, q)

RECURSIVE SortedFrom(_, _)
SortedFrom(fs, S) ==
    IF S = {} THEN <<>>
    ELSE <<FirstByKey(fs, S)>> \o SortedFrom(fs, S \ {FirstByKey(fs, S)})

\* sorted(glob('*.mp4'), key=st_ctime).
SortedVideos(fs) == SortedFrom(fs, Present(fs))

\* The while condition stopping one candidate early.
LoopContinues_KeepLast(vs, sz) == Len(vs) > 1 /\ sz > max_folder_size

\* The while condition: videos and current_size > self.max_folder_size.
LoopContinues(vs, sz) == vs # <<>> /\ sz > max_folder_size

\* oldest_video.stat().st_size, evaluated after os.remove(oldest_video): -1
\* stands for the FileNotFoundError a path that is gone raises.
StatSize(fs, p) == IF fs[p] = NoFile THEN -1 ELSE fs[p].size

RetentionReturn(op) ==
    /\ cpc' = "idle"
    /\ Returns(op, "None", 0, 0)

\* cleanup_videos() up to the first test of the while condition.
CleanupStart(op) ==
    /\ videos' = SortedVideos(files)
    /\ current_size' = TotalSize(files)
    /\ rhist' = RHistInit(files)
    /\ IF LoopContinues(videos', current_size')
       THEN /\ cpc' = "loop"
            /\ Returns(op, "running", 0, 0)
       ELSE RetentionReturn(op)
    /\ ForgetSave
    /\ UNCHANGED <<sessionVars, hostVars, files, timeout, max_folder_size>>

\* cleanup_videos(), called directly.
CleanupVideos ==
    /\ Idle
    /\ CleanupStart("cleanup_videos")

\* check_and_manage_folder_size(): cleanup_videos() when the total exceeds
\* the cap, nothing otherwise. The sum of the sizes is computed outside any
\* try: a stat that raises (statOk = FALSE, which takes a file to stat)
\* leaves the method as an OSError.
CheckAndManageFolderSize(statOk) ==
    /\ Idle
    /\ ~statOk => Present(files) # {}
    /\ IF ~statOk
       THEN /\ lastOp' = "check_and_manage_folder_size"
            /\ lastResult' = "OSError"
            /\ opCalls' = 0
            /\ opScans' = 0
            /\ queryResult' = None
            /\ queryRaised' = TRUE
            /\ Forget
            /\ UNCHANGED <<sessionVars, hostVars, files, timeout>>
       ELSE IF TotalSize(files) > max_folder_size
       THEN CleanupStart("check_and_manage_folder_size")
       ELSE /\ RetentionReturn("check_and_manage_folder_size")
            /\ videos' = <<>>
            /\ current_size' = 0
            /\ rhist' = RHistInit(files)
            /\ ForgetSave
            /\ UNCHANGED <<sessionVars, hostVars, files, timeout,
                           max_folder_size>>

\* The candidate put back when its deletion fails.
RemainingAfter_Retry(vs, delOk) == IF delOk THEN Tail(vs) ELSE vs

\* videos after videos.pop(0), which comes before the try: the candidate is
\* gone from the list whether or not os.remove raises.
RemainingAfter(vs, delOk) == Tail(vs)

\* The except clause leaving the loop.
AbortOnError_Break(delOk) == ~delOk

\* Whether an exception of os.remove ends the while loop: the except clause
\* logs and falls through to the next test of the while condition.
AbortOnError(delOk) == FALSE

\* One turn of the while loop: pop(0), os.remove, and in the same try the
\* stat of the removed path, whose exception skips the subtraction.
CleanupIteration(delOk) ==
    /\ cpc = "loop"
    /\ LET oldest_video == Head(videos)
       IN /\ videos' = RemainingAfter(videos, delOk)
          /\ files' = IF delOk THEN [files EXCEPT ![oldest_video] = NoFile]
                      ELSE files
          /\ current_size' =
                IF delOk /\ StatSize(files', oldest_video) # -1
                THEN current_size - StatSize(files', oldest_video)
                ELSE current_size
          /\ rhist' = [rhist EXCEPT
                !.delFailed = @ \/ ~delOk,
                !.overDelete = @ \/ (delOk /\ TotalSize(files) <= max_folder_size)]
    /\ IF LoopContinues(videos', current_size') /\ ~AbortOnError(delOk)
       THEN UNCHANGED <<cpc, opVars>>
       ELSE RetentionReturn(lastOp)
    /\ UNCHANGED <<sessionVars, hostVars, timeout, saveVars, max_folder_size>>

\* ------------------------------------------------------- the specification
InitSave ==
    /\ now = 0
    /\ pc = "idle"
    /\ latest_file_before = None
    /\ deadline = 0
    /\ sleepLeft = 0
    /\ hist = HistInit(EmptyDir)

InitClean ==
    /\ cpc = "idle"
    /\ videos = <<>>
    /\ current_size = 0
    /\ rhist = RHistInit(EmptyDir)

\* OBSController.__init__, but for the session: the timeout and the cap are
\* arguments, the directory is as found.
InitRest ==
    /\ leaked = 0
    /\ process = "None"
    /\ spawned = 0
    /\ terminated = 0
    /\ probes = 0
    /\ queryResult = None
    /\ queryRaised = FALSE
    /\ lastOp = "none"
    /\ lastResult = "none"
    /\ opCalls = 0
    /\ opScans = 0
    /\ files = EmptyDir
    /\ max_folder_size \in Caps
    /\ InitSave
    /\ InitClean

\* OBSController.__init__: no handle.
Init ==
    /\ processRunning \in BOOLEAN
    /\ ws = "None"
    /\ timeout \in Timeouts
    /\ InitRest

SessionCall ==
    \/ \E q \in QueryOutcomes, o \in ConnectOutcomes : Connect(q, o)
    \/ \E o \in DisconnectOutcomes : Disconnect(o)
    \/ \E c \in ConnectOutcomes, d \in DisconnectOutcomes : HealthCheck(c, d)
    \/ IsConnectedRead
    \/ \E ok \in BOOLEAN : StartReplayBuffer(ok)
    \/ \E ok \in BOOLEAN : StopReplayBuffer(ok)

SessionEnv ==
    \/ ProcessStart
    \/ ProcessExit
    \/ ConnectionDrop
    \/ LeakedDrop
    \/ ProbeDrop

SaveStep ==
    \/ \E scanOk \in BOOLEAN : SaveReplayBegin(scanOk)
    \/ \E ok \in BOOLEAN : SaveReplayCallReturns(ok)
    \/ \E scanOk \in BOOLEAN : SaveReplayPoll(scanOk)
    \/ Tick

\* The session specification: every method of the session and save_replay,
\* with OBS writing one video file at most.
Next ==
    \/ SessionCall
    \/ SessionEnv
    \/ SaveStep
    \/ AddFile(1, 1, 1, 5)

Spec == Init /\ [][Next]_vars

\* The save_replay specification: a connected controller, and a directory
\* that changes in every way while save_replay waits.
\* The controller after launch_obs() and a successful connect().
InitConnected ==
    /\ processRunning = TRUE
    /\ ws = "open"
    /\ timeout \in Timeouts
    /\ InitRest

DirEnv ==
    \/ \E p \in Paths, m \in Stamps : AddFile(p, m, 1, 5)
    \/ \E p \in Paths, m \in Stamps : TouchFile(p, m)
    \/ \E p \in Paths : RemoveFile(p)

NextSave == SaveStep \/ DirEnv

SpecSave == InitConnected /\ [][NextSave]_vars

\* The retention specification: the directory fills and changes between
\* retention runs, and no one else writes while a run is in progress.
InitRetention ==
    /\ processRunning = FALSE
    /\ ws = "None"
    /\ timeout = 0
    /\ InitRest

DirEnvAll ==
    \/ \E p \in Paths, m \in Stamps, c \in Stamps, s \in Sizes :
            AddFile(p, m, c, s)
    \/ \E p \in Paths, m \in Stamps : TouchFile(p, m)
    \/ \E p \in Paths : RemoveFile(p)

NextRetention ==
    \/ CheckAndManageFolderSize(TRUE)
    \/ CleanupVideos
    \/ \E delOk \in BOOLEAN : CleanupIteration(delOk)
    \/ DirEnvAll

SpecRetention == InitRetention /\ [][NextRetention]_vars

\* The loops specification: save_replay and the retention methods of a
\* connected controller, one after the other, with the directory changing
\* under save_replay and between the calls.
NextLoops ==
    \/ NextSave
    \/ CheckAndManageFolderSize(TRUE)
    \/ CleanupVideos
    \/ \E delOk \in BOOLEAN : CleanupIteration(delOk)

SpecLoops == InitConnected /\ [][NextLoops]_vars

\* The process specification: launch_obs, cleanup and connect, with OBS
\* exiting and the connection dropping at any time.
InitProcess ==
    /\ processRunning \in BOOLEAN
    /\ ws = "None"
    /\ timeout = 0
    /\ InitRest

NextProcess ==
    \/ \E q \in QueryOutcomes, spawnOk \in BOOLEAN : LaunchObs(q, spawnOk)
    \/ \E o \in DisconnectOutcomes, others \in BOOLEAN : Cleanup(o, others)
    \/ \E q \in QueryOutcomes, o \in ConnectOutcomes : Connect(q, o)
    \/ ProcessExit
    \/ ConnectionDrop

SpecProcess == InitProcess /\ [][NextProcess]_vars

\* The directory-query specification: the two queries of the directory,
\* with a scan or a stat that can raise, between any changes of the
\* directory.
NextDir ==
    \/ \E scanOk \in BOOLEAN : GetLatestVideo(scanOk)
    \/ \E statOk \in BOOLEAN : CheckAndManageFolderSize(statOk)
    \/ \E delOk \in BOOLEAN : CleanupIteration(delOk)
    \/ DirEnvAll

SpecDir == InitRetention /\ [][NextDir]_vars

\* ================================================================= claims
GuardedOps ==
    {"connect", "save_replay", "start_replay_buffer", "stop_replay_buffer"}

SessionOps == GuardedOps \ {"connect"}

\* A step that is the call of method op (the methods start when no other
\* method runs, and every other step leaves lastOp or sets it to "none").
CallOf(ops) == Idle /\ lastOp' \in ops

C3_DisconnectClears ==
    (lastOp = "disconnect" /\ lastResult \in {"True", "OBSConnectionError"})
        => (ws = "None" /\ ~is_connected)

\* disconnect() has just failed to close its handle.
C3_Witness ==
    /\ lastOp = "disconnect"
    /\ lastResult = "OBSConnectionError"
    /\ leaked > 0

\* C4, as stated (its return values): after connect() returned True
\* is_connected is true, and after it returned False is_connected is false.
C4_ConnectResultMatchesState ==
    lastOp = "connect" =>
        /\ lastResult = "True" => is_connected
        /\ lastResult = "False" => ~is_connected

\* Sockets opened by connect() that are open: the handle's, and those of the
\* handles connect() and disconnect() let go of without closing.
LiveConnections == leaked + (IF ws = "open" THEN 1 ELSE 0)

\* C5, as stated: at most one connection opened by connect() is live.
C5_AtMostOneLive == LiveConnections <= 1

SaveReturned ==
    /\ lastOp = "save_replay"
    /\ lastResult \in {"True", "False"}

\* The premise of C6: 'before' was a file, and no other path became the
\* newest during the call.
NoNewPath == latest_file_before # None /\ ~hist.otherNewest

C7_FileBeforeDeadlineSucceeds ==
    (/\ SaveReturned
     /\ timeout > 0
     /\ hist.startEmpty
     /\ latest_file_before = None
     /\ hist.request = "ok"
     /\ ~hist.lateCall
     /\ ~hist.scanError
     /\ ~hist.removed
     /\ hist.appeared = "intime") => lastResult = "True"

RetentionOps == {"check_and_manage_folder_size", "cleanup_videos"}

RetentionReturned == lastOp \in RetentionOps /\ cpc = "idle"

\* The files of the run's start that are gone, and those that are left.
Deleted == Present(rhist.startFiles) \ Present(files)

Surviving == Present(rhist.startFiles) \cap Present(files)

\* The scenario of C8: clipA (path 1, older, 100 MB), clipB (path 2, newer,
\* 50 MB), cap 120 MB.
ScenarioStart ==
    /\ Present(rhist.startFiles) = {1, 2}
    /\ rhist.startFiles[1].size = 10
    /\ rhist.startFiles[2].size = 5
    /\ rhist.startFiles[1].ctime < rhist.startFiles[2].ctime
    /\ max_folder_size = 12

\* C8, as stated, on its own scenario: a file is deleted only while the
\* files not yet deleted exceed the cap, so exactly clipA is deleted and
\* clipB is retained.
C8_StopsAtCap ==
    ScenarioStart =>
        /\ ~rhist.overDelete
        /\ (RetentionReturned /\ ~rhist.delFailed) =>
                (Deleted = {1} /\ Surviving = {2})

\* C9: after retention returns (it never raises), the remaining total is
\* within the cap, or no video file is left, or a deletion failed.
C9_Postcondition ==
    RetentionReturned =>
        /\ lastResult = "None"
        /\ \/ TotalSize(files) <= max_folder_size
           \/ Present(files) = {}
           \/ rhist.delFailed

\* A run has returned after deleting one file and failing to delete another,
\* with the total still over the cap.
C9_Witness ==
    /\ RetentionReturned
    /\ rhist.delFailed
    /\ Deleted # {}
    /\ TotalSize(files) > max_folder_size

\* p is before q in the creation-time order, ties in directory-scan order.
OlderFirst(p, q) ==
    \/ rhist.startFiles[p].ctime < rhist.startFiles[q].ctime
    \/ /\ rhist.startFiles[p].ctime = rhist.startFiles[q].ctime
       /\ ScanBefore(p, q)

\* C10: as long as no deletion has failed, during the run and at its return,
\* every deleted file is before every surviving file in the creation-time
\* order with ties in scan order: the survivors are a suffix of that list.
C10_OldestFirst ==
    ((cpc = "loop" \/ RetentionReturned) /\ ~rhist.delFailed) =>
        \A p \in Deleted, q \in Surviving : OlderFirst(p, q)

\* In the middle of a run one file is deleted and one of the same creation
\* time, later in the scan and modified earlier, is still there.
C10_Witness ==
    /\ cpc = "loop"
    /\ ~rhist.delFailed
    /\ \E p \in Deleted, q \in Surviving :
            /\ rhist.startFiles[p].ctime = rhist.startFiles[q].ctime
            /\ rhist.startFiles[p].mtime > rhist.startFiles[q].mtime

DirQueries == {"get_latest_video", "check_and_manage_folder_size"}

\* p is a file of the directory no other file of which is newer.
C11_IsNewest(p) ==
    /\ files[p] # NoFile
    /\ \A q \in Paths : files[q].mtime <= files[p].mtime

\* C11, as stated: get_latest_video returns none exactly when the directory
\* holds no video file, and otherwise a file whose modification time is not
\* less than that of any other file.
C11_NoneIffEmpty ==
    lastOp = "get_latest_video" =>
        /\ queryResult = None <=> Present(files) = {}
        /\ queryResult # None => C11_IsNewest(queryResult.path)

\* C11, amended: get_latest_video returns none exactly when the directory
\* holds no video file or the scan (the listing, or the stat of a file)
\* raised; otherwise it returns one file of the directory, and no file of the
\* directory is newer (among files of equal modification time one is
\* returned).
C11_NoneIffEmptyOrRaised ==
    lastOp = "get_latest_video" =>
        /\ queryResult = None <=> (Present(files) = {} \/ queryRaised)
        /\ queryResult # None => C11_IsNewest(queryResult.path)
        /\ lastResult \in {"None", "dict"}

\* get_latest_video has answered with one of two files of the same
\* modification time, the other one created later.
C11_Witness ==
    /\ lastOp = "get_latest_video"
    /\ queryResult # None
    /\ \E q \in Paths \ {queryResult.path} :
            /\ files[q].mtime = files[queryResult.path].mtime
            /\ files[q].ctime > files[queryResult.path].ctime

\* C19, as stated: a scan or stat failure never leaves get_latest_video or
\* check_and_manage_folder_size as an exception.
C19_QueriesNeverRaise ==
    lastOp \in DirQueries => lastResult # "OSError"

\* C12: the health check leaves the controller's handle, the sockets its
\* connect() opened and is_connected exactly as they were, whether it answers
\* True or False; when it answers True its throwaway socket is closed.
C12_HealthCheckLeavesSession ==
    [][CallOf({"health_check"}) =>
         /\ ws' = ws
         /\ leaked' = leaked
         /\ is_connected' <=> is_connected
         /\ lastResult' \in {"True", "False"}
         /\ lastResult' = "True" => probes' = probes]_vars

\* The health check has answered True with the controller's own session
\* connected.
C12_Witness ==
    /\ lastOp = "health_check"
    /\ lastResult = "True"
    /\ ws = "open"
    /\ probes = 0

\* C20: reading is_connected answers True exactly when the handle is present
\* and its socket is connected, answers False (and raises nothing) when the
\* handle or the handle's socket object is absent, and changes nothing.
C20_DerivedFromHandle ==
    [][CallOf({"is_connected"}) =>
         /\ lastResult' = "True" <=> ws = "open"
         /\ lastResult' = "False" <=> ws \in {"None", "absent", "closed"}
         /\ ws' = ws
         /\ leaked' = leaked]_vars

\* is_connected has answered False for a handle whose socket is no longer
\* connected, with OBS still running.
C20_Witness ==
    /\ lastOp = "is_connected"
    /\ lastResult = "False"
    /\ ws = "closed"
    /\ processRunning

\* C13, as stated, with the process query answering: launch_obs spawns
\* nothing when the process is running, and over the life of the controller
\* at most one process handle is created.
C13_HandleCreatedOnce ==
    [][(CallOf({"launch_obs"}) /\ ~queryRaised') =>
         /\ processRunning => spawned' = spawned
         /\ spawned' <= 1]_vars

\* C13, amended: launch_obs spawns nothing and keeps its handle when the
\* process query reports OBS running; otherwise (no process, or a query that
\* failed) it creates at most one handle in that call, which replaces the
\* one it had.
C13_SpawnOnlyWhenNotReported ==
    [][CallOf({"launch_obs"}) =>
         /\ (processRunning /\ ~queryRaised') =>
                (spawned' = spawned /\ process' = process)
         /\ spawned' \in {spawned, spawned + 1}
         /\ spawned' = spawned + 1 => (process' = "handle" /\ terminated' = 0)
         /\ spawned' = spawned => process' = process
         /\ lastResult' = "None"]_vars

\* launch_obs, with its process query answering, has created a second
\* handle after the first process had exited.
C13_Witness ==
    /\ lastOp = "launch_obs"
    /\ ~queryRaised
    /\ spawned = 2
    /\ process = "handle"

\* C14, as stated: after cleanup has run (once or several times, whether or
\* not its disconnect failed) the tracked process has been asked to
\* terminate exactly once; with no tracked process nothing is terminated and
\* cleanup does not fail.
C14_TerminatedExactlyOnce ==
    lastOp = "cleanup" =>
        /\ lastResult = "None"
        /\ process # "None" => terminated = 1
        /\ process = "None" => terminated = 0

\* A save_replay call that passed its guard is running or has returned.
SaveStarted ==
    /\ lastOp = "save_replay"
    /\ lastResult \in {"running", "True", "False"}

\* C15, as stated: the deadline is the time at which the request returned
\* plus the timeout, so when the loop condition is first tested the whole
\* timeout is still ahead.
C15_DeadlineAfterRequest ==
    (SaveStarted /\ pc = "check" /\ opScans = 1) => deadline = now + timeout

\* C15, amended: save_replay takes the 'before' snapshot, fixes the deadline
\* at the time of the call plus the timeout, sends exactly one request, and
\* polls only once the request has been acknowledged; the request is never
\* sent again, and the time spent inside the request counts against the
\* timeout (a request acknowledged after the deadline leaves no poll).
C15_DeadlineBeforeRequest ==
    SaveStarted =>
        /\ opCalls = 1
        /\ deadline = timeout
        /\ pc = "calling" => (opScans = 1 /\ hist.request = "pending")
        /\ opScans > 1 => hist.request = "ok"
        /\ hist.lateCall => opScans = 1

\* save_replay has returned failure without a poll: its request was
\* acknowledged after the deadline.
C15_Witness ==
    /\ SaveReturned
    /\ hist.request = "ok"
    /\ hist.lateCall
    /\ opScans = 1
    /\ opCalls = 1

\* The newest file of the directory (first in scan order among equals) is a
\* path other than the one of the 'before' snapshot.
C16_NewestIsOther ==
    \E p \in Paths \ {latest_file_before.path} :
        /\ files[p] # NoFile
        /\ \A q \in Paths \ {p} :
                \/ files[q].mtime < files[p].mtime
                \/ files[q].mtime = files[p].mtime /\ p < q

\* C16: a poll made at or before the deadline (the step that takes
\* save_replay out of its loop test) returns success, with no further poll
\* or sleep, if the newest file is at a path other than 'before' (or
\* 'before' is none and there is a file) and no scan has raised; it never
\* returns success otherwise, in particular not when the newest file is
\* 'before' with a changed modification time, and then it sleeps.
C16_SuccessOnNewPath ==
    [][(pc = "check" /\ pc' # "check" /\ now <= deadline) =>
         /\ (C16_NewestIsOther /\ ~hist'.scanError) =>
                (pc' = "idle" /\ lastResult' = "True")
         /\ lastResult' = "True" =>
                /\ C16_NewestIsOther
                /\ pc' = "idle"
                /\ sleepLeft' = 0
                /\ opScans' = opScans + 1
         /\ lastResult' # "True" =>
                (pc' = "sleeping" /\ sleepLeft' = PollInterval)
         /\ files' = files]_vars

\* save_replay has returned success on a new path although the file of the
\* 'before' snapshot had been modified since the snapshot.
C16_Witness ==
    /\ SaveReturned
    /\ lastResult = "True"
    /\ latest_file_before # None
    /\ files[latest_file_before.path].mtime >
            latest_file_before.modification_time

\* A step of the save_replay call in progress.
SaveProgress ==
    \/ \E ok \in BOOLEAN : SaveReplayCallReturns(ok)
    \/ \E scanOk \in BOOLEAN : SaveReplayPoll(scanOk)
    \/ Tick

C18_FailureSkipsFile ==
    [][cpc = "loop" =>
         /\ videos # <<>>
         /\ Len(videos) <= Cardinality(Present(rhist.startFiles))
         /\ \A i, j \in 1..Len(videos) :
                i < j => OlderFirst(videos[i], videos[j])
         /\ videos' = Tail(videos)
         /\ \A i \in 1..Len(videos') : videos'[i] # Head(videos)
         /\ files' \in {files, [files EXCEPT ![Head(videos)] = NoFile]}
         /\ lastResult' \in {"running", "None"}
         /\ files' = files =>
                /\ rhist'.delFailed
                /\ videos' # <<>> => (cpc' = "loop" /\ lastResult' = "running")
                /\ videos' = <<>> => (cpc' = "idle" /\ lastResult' = "None")]_vars

\* A deletion has failed and the loop is going on with the next candidate.
C18_Witness ==
    /\ cpc = "loop"
    /\ rhist.delFailed
    /\ videos # <<>>
    /\ Present(files) = Present(rhist.startFiles)

BufferOps == {"start_replay_buffer", "stop_replay_buffer"}

C22_LoopsEndOnTheirConditions ==
    /\ (SaveReturned /\ hist.request = "ok" /\ lastResult = "False") =>
            now > deadline
    /\ (pc = "sleeping" /\ hist.scanError) => now <= deadline + PollInterval
    /\ RetentionReturned =>
            /\ lastResult = "None"
            /\ videos = <<>> \/ TotalSize(files) <= max_folder_size

\* A retention run with two candidates has gone through a failed deletion
\* to the end of its list and returned with the total over the cap.
C22_Witness ==
    /\ RetentionReturned
    /\ rhist.delFailed
    /\ Cardinality(Present(rhist.startFiles)) = 2
    /\ videos = <<>>
    /\ TotalSize(files) > max_folder_size

\* C23, as stated: save_replay returns True only if a video file was
\* created in the directory after the 'before' snapshot.
C23_TrueOnlyIfFileCreated ==
    (SaveReturned /\ lastResult = "True") => hist.appeared # "no"

\* C24, as stated: cleanup() raises nothing, and is_connected is false once
\* it has returned.
C24_NotConnectedAfterCleanup ==
    lastOp = "cleanup" => (lastResult = "None" /\ ~is_connected)

====
